---- MODULE Spec2Model ----
(***************************************************************************)
(* Model of the meeting-intelligence ingestion and query pipeline.         *)
(*                                                                         *)
(* IngestionService.ingest is modelled step by step (one action per port   *)
(* call of the handler), run by two invocations that may interleave, over  *)
(* the shared metadata store, vector store and artifact store.             *)
(* QueryService.query runs as a third process over the same stores, with   *)
(* GuardrailService and the in-memory vector search as operators.          *)
(* _chunk_segments, a pure function, is also called on its own over        *)
(* bounded segment lists (SpecChunk).                                      *)
(***************************************************************************)
EXTENDS Integers, Sequences, FiniteSets, TLC

VARIABLES
    pc,       \* pc[i]: position of ingest invocation i inside ingest()
    arg,      \* arg[i]: the arguments (meeting_id, raw_content) of invocation i
    loc,      \* loc[i]: the local variables of invocation i
    result,   \* result[i]: what invocation i returned or raised
    calls,    \* calls[i]: the port calls / steps invocation i has invoked, in order
    seen,     \* seen[i]: the invocations that had already ended when i started
    meta,     \* metadata store: meeting id -> item (DynamoDB table)
    vstore,   \* vector store: the adapter's _store dict, in insertion order
    raw,      \* artifact store, raw objects: meeting id -> content
    derived,  \* artifact store, chunk_map.json per meeting
    qpc,      \* position of the query invocation inside query()
    qarg,     \* its arguments and the service's configuration
    qloc,     \* its local variables
    qresult,  \* what it returned or raised
    qcalls,   \* the port / provider calls it has invoked, in order
    unit,     \* a function or adapter exercised on its own: arguments, result, state
    worker    \* per upload: how far the API upload and its worker run have got

ivars == <<pc, arg, loc, result, calls, seen>>

stores == <<meta, vstore, raw, derived>>

qvars == <<qpc, qarg, qloc, qresult, qcalls>>

vars == <<pc, arg, loc, result, calls, seen, meta, vstore, raw, derived,
          qpc, qarg, qloc, qresult, qcalls, unit, worker>>

-----------------------------------------------------------------------------
(* Inputs *)

Invocations == {"i1", "i2"}

MeetingIds == {"m1", "m2"}

\* raw_content values: b"" and two transcripts
Contents == {"empty", "standup", "review"}

Filename == "notes.txt"

\* IngestionService.__init__ defaults
MaxChunkTokens == 512

ChunkOverlap == 1

\* at most this many embeddings more than texts come back from a provider
ExtraEmbeddings == 1

\* ChunkMapEntry snippet length
SnippetLen == 200

-----------------------------------------------------------------------------
(* Domain values *)

PENDING == "PENDING"

READY == "READY"

FAILED == "FAILED"

NoStatus == "NONE"

NoError == <<>>

NoExc == [type |-> "none", msg |-> "none"]

NoResult == [kind |-> "none"]

\* a table without an item for the key; attributes a read defaults
AbsentItem ==
    [present |-> FALSE, ingestion_status |-> NoStatus, error_message |-> NoError,
     title_normalized |-> <<>>, meeting_date |-> "", participants |-> {},
     s3_uri_raw |-> <<>>, s3_uri_derived_prefix |-> <<>>, doc_hash |-> <<>>,
     ingested_at |-> FALSE]

AbsentObject == [present |-> FALSE, body |-> <<>>]

-----------------------------------------------------------------------------
(* Pure helpers of ingestion_service.py and the parser *)

\* _compute_hash: SHA-256 of the content (collision-free on the inputs)
ComputeHash(content) == <<"sha256", content>>

\* S3ArtifactStoreAdapter key layout
RawUri(m, filename) == <<"s3", "raw", m, filename>>

DerivedPrefix(m) == <<"s3", "derived", m>>

DerivedUri(m, name) == <<"s3", "derived", m, name>>

\* filename.rsplit(".", 1)[0].lower().replace("_", " ")
TitleOf(filename) == <<"title", filename>>

\* bytes.decode + TranscriptParser.parse_text: empty text raises ProcessingError
ParseFails(content) == content = "empty"

ParseError == [type |-> "ProcessingError", msg |-> "Transcript text cannot be empty"]

\* the segments parse_text yields; words is len(text.split())
ParseSegments(content) ==
    CASE content = "standup" ->
            << [timestamp |-> "00:00:00", speaker |-> "Alice", words |-> 300] >>
      [] content = "review" ->
            << [timestamp |-> "00:00:00", speaker |-> "Bob", words |-> 300],
               [timestamp |-> "00:00:15", speaker |-> "Carol", words |-> 300] >>
      [] OTHER -> <<>>

\* IngestionService._normalise
Normalise(content, m) ==
    LET segs == ParseSegments(content) IN
    [meeting_id |-> m,
     date |-> "today",
     participants |-> {segs[k].speaker : k \in 1..Len(segs)},
     segments |-> segs]

\* a window step whose floor is 0
MaxOfZeroFloor(a, b) == IF a >= 0 THEN a ELSE 0

\* a window step that is always the floor
FloorOnly(a, b) == b

\* a window step that is one segment longer than the overlap allows
MaxOfPlusOne(a, b) == IF a + 1 >= b THEN a + 1 ELSE b

MaxOf(a, b) == IF a >= b THEN a ELSE b

\* an inner loop that closes the batch when the limit is reached, not exceeded
RECURSIVE BatchEndAtLimit(_, _, _, _, _)
BatchEndAtLimit(segs, j, token_count, batch_len, max_tokens) ==
    IF j > Len(segs) THEN j
    ELSE IF token_count + segs[j].words >= max_tokens /\ batch_len > 0 THEN j
    ELSE BatchEndAtLimit(segs, j + 1, token_count + segs[j].words, batch_len + 1, max_tokens)

\* an inner loop that closes the batch on the token limit even when it is empty
RECURSIVE BatchEndUnforced(_, _, _, _, _)
BatchEndUnforced(segs, j, token_count, batch_len, max_tokens) ==
    IF j > Len(segs) THEN j
    ELSE IF token_count + segs[j].words > max_tokens THEN j
    ELSE BatchEndUnforced(segs, j + 1, token_count + segs[j].words, batch_len + 1, max_tokens)

\* inner while loop of _chunk_segments: index after the last segment of the batch
RECURSIVE BatchEnd(_, _, _, _, _)
BatchEnd(segs, j, token_count, batch_len, max_tokens) ==
    IF j > Len(segs) THEN j
    ELSE IF token_count + segs[j].words > max_tokens /\ batch_len > 0 THEN j
    ELSE BatchEnd(segs, j + 1, token_count + segs[j].words, batch_len + 1, max_tokens)

\* outer while loop of _chunk_segments, as [first, last] segment index windows
RECURSIVE ChunkWindows(_, _, _, _)
ChunkWindows(segs, i, max_tokens, overlap) ==
    IF i > Len(segs) THEN <<>>
    ELSE LET j == BatchEnd(segs, i, 0, 0, max_tokens)
             n == j - i
         IN IF n = 0 THEN <<>>
            ELSE <<[first |-> i, last |-> j - 1]>>
                 \o ChunkWindows(segs, i + MaxOf(n - overlap, 1), max_tokens, overlap)

\* the dicts _chunk_segments returns; uuid4 chunk ids are fresh per call: <<run, k>>
ChunkSegments(segs, max_tokens, overlap, run) ==
    LET w == ChunkWindows(segs, 1, max_tokens, overlap) IN
    [k \in 1..Len(w) |->
        [chunk_id |-> <<run, k>>,
         text |-> SubSeq(segs, w[k].first, w[k].last),
         timestamp_start |-> segs[w[k].first].timestamp,
         timestamp_end |-> segs[w[k].last].timestamp,
         speaker |-> {segs[s].speaker : s \in w[k].first..w[k].last}]]

\* text[:200] of a chunk text: the text cut to the preview length (in words here)
RECURSIVE Snippet(_, _)
Snippet(text, room) ==
    IF text = <<>> \/ room <= 0 THEN <<>>
    ELSE LET s == Head(text) IN
         IF s.words <= room THEN <<s>> \o Snippet(Tail(text), room - s.words)
         ELSE <<[s EXCEPT !.words = room]>>

\* f"{type(exc).__name__}: {exc}"
ErrorMsg(exc) == <<exc.type, exc.msg>>

PortError(step) == [type |-> "ExternalServiceError", msg |-> step]

-----------------------------------------------------------------------------
(* Metadata store (DynamoMetadataStoreAdapter) *)

\* _to_dynamo_item: a fresh MeetingRecord carries no ingested_at / error_message
ToItem(record) ==
    [present |-> TRUE, ingestion_status |-> record.ingestion_status,
     error_message |-> NoError,
     title_normalized |-> record.title_normalized,
     meeting_date |-> record.meeting_date, participants |-> record.participants,
     s3_uri_raw |-> record.s3_uri_raw,
     s3_uri_derived_prefix |-> record.s3_uri_derived_prefix,
     doc_hash |-> record.doc_hash, ingested_at |-> FALSE]

\* put_meeting: put_item replaces the whole item
PutMeeting(md, record) == [md EXCEPT ![record.meeting_id] = ToItem(record)]

\* an update_status that writes a whole new item, as put_item does
UpdateStatusReplacesItem(md, m, status, error_message) ==
    [md EXCEPT ![m] = [AbsentItem EXCEPT !.present = TRUE,
                                         !.ingestion_status = status,
                                         !.ingested_at = TRUE,
                                         !.error_message = error_message]]

\* an update_status that writes READY whatever status it is given
UpdateStatusAlwaysReady(md, m, status, error_message) ==
    [md EXCEPT ![m] = [@ EXCEPT !.present = TRUE,
                                !.ingestion_status = READY,
                                !.ingested_at = TRUE,
                                !.error_message = error_message]]

\* an update_status that always REMOVEs error_message
UpdateStatusDropsMessage(md, m, status, error_message) ==
    [md EXCEPT ![m] = [@ EXCEPT !.present = TRUE,
                                !.ingestion_status = status,
                                !.ingested_at = TRUE,
                                !.error_message = NoError]]

\* update_status: update_item SET status, ingested_at; SET or REMOVE error_message.
\* update_item carries no condition, so it creates the item when there is none.
UpdateStatus(md, m, status, error_message) ==
    [md EXCEPT ![m] = [@ EXCEPT !.present = TRUE,
                                !.ingestion_status = status,
                                !.ingested_at = TRUE,
                                !.error_message = error_message]]

-----------------------------------------------------------------------------
(* Vector store (InMemoryVectorStoreAdapter / S3VectorsVectorStoreAdapter) *)

\* self._store[v.chunk_id] = v on a dict that keeps insertion order
DictSet(store, v) ==
    IF \E k \in 1..Len(store) : store[k].chunk_id = v.chunk_id
    THEN [k \in 1..Len(store) |-> IF store[k].chunk_id = v.chunk_id THEN v ELSE store[k]]
    ELSE Append(store, v)

\* a store_vectors that replaces the whole store by the new vectors
StoreVectorsReplacesAll(store, vectors) == vectors

\* store_vectors: for v in vectors: self._store[v.chunk_id] = v
RECURSIVE StoreVectors(_, _)
StoreVectors(store, vectors) ==
    IF vectors = <<>> THEN store
    ELSE StoreVectors(DictSet(store, Head(vectors)), Tail(vectors))

\* delete_by_meeting: del self._store[k] for every key of that meeting
DeleteByMeeting(store, m) ==
    LET Keep(v) == v.meeting_id # m IN SelectSeq(store, Keep)

-----------------------------------------------------------------------------
(* Artifact store (S3ArtifactStoreAdapter) *)

UploadRawObj(rw, m, content) == [rw EXCEPT ![m] = [present |-> TRUE, body |-> content]]

UploadDerived(dv, m, body) == [dv EXCEPT ![m] = [present |-> TRUE, body |-> body]]

-----------------------------------------------------------------------------
(* Values ingest() builds *)

\* a step-2 record that is written READY at once
PendingRecordReady(m, filename, content, raw_uri, derived_prefix) ==
    [meeting_id |-> m, title_normalized |-> TitleOf(filename), meeting_date |-> "",
     participants |-> {}, s3_uri_raw |-> raw_uri,
     s3_uri_derived_prefix |-> derived_prefix, doc_hash |-> ComputeHash(content),
     ingestion_status |-> READY]

\* MeetingRecord of step 2
PendingRecord(m, filename, content, raw_uri, derived_prefix) ==
    [meeting_id |-> m, title_normalized |-> TitleOf(filename), meeting_date |-> "",
     participants |-> {}, s3_uri_raw |-> raw_uri,
     s3_uri_derived_prefix |-> derived_prefix, doc_hash |-> ComputeHash(content),
     ingestion_status |-> PENDING]

\* record.participants = ...; record.meeting_date = ...
ParsedRecord(record, normalised) ==
    [record EXCEPT !.participants = normalised.participants,
                   !.meeting_date = normalised.date]

MinOf(a, b) == IF a <= b THEN a ELSE b

\* [VectorRecord(...) for c, emb in zip(chunks, embeddings)]
BuildVectors(m, chunks, embeddings) ==
    [k \in 1..MinOf(Len(chunks), Len(embeddings)) |->
        [chunk_id |-> chunks[k].chunk_id, meeting_id |-> m,
         embedding |-> embeddings[k], text |-> chunks[k].text,
         speaker |-> chunks[k].speaker]]

\* [ChunkMapEntry(...).model_dump() for c in chunks]
BuildChunkMap(m, chunks, raw_uri) ==
    [k \in 1..Len(chunks) |->
        [chunk_id |-> chunks[k].chunk_id, meeting_id |-> m,
         timestamp_start |-> chunks[k].timestamp_start,
         timestamp_end |-> chunks[k].timestamp_end,
         speaker |-> chunks[k].speaker,
         snippet |-> Snippet(chunks[k].text, SnippetLen),
         raw_s3_uri |-> raw_uri]]

\* IngestionReport of step 10
BuildReport(m, chunks, vectors, chunk_map_uri) ==
    [kind |-> "report", meeting_id |-> m, status |-> READY,
     chunks_created |-> Len(chunks), embeddings_stored |-> Len(vectors),
     derived_artifacts |-> <<chunk_map_uri>>]

\* a failed run that hands back a FAILED report instead of raising
FailureReport(m, exc) ==
    [kind |-> "report", meeting_id |-> m, status |-> FAILED,
     chunks_created |-> 0, embeddings_stored |-> 0,
     derived_artifacts |-> <<>>, error_message |-> ErrorMsg(exc)]

\* an IngestionError that reports the failure of the status write instead
IngestionErrorOfStatusWrite(m, exc) ==
    [kind |-> "IngestionError",
     message |-> <<"Ingestion failed for", m, ErrorMsg(PortError("update_status"))>>,
     context |-> [meeting_id |-> m],
     cause |-> PortError("update_status")]

\* raise IngestionError(message=..., meeting_id=meeting_id) from exc
BuildIngestionError(m, exc) ==
    [kind |-> "IngestionError",
     message |-> <<"Ingestion failed for", m, ErrorMsg(exc)>>,
     context |-> [meeting_id |-> m],
     cause |-> exc]

-----------------------------------------------------------------------------
(* InMemoryVectorStoreAdapter.search *)

RECURSIVE Dot(_, _)
Dot(a, b) == IF a = <<>> THEN 0 ELSE Head(a) * Head(b) + Dot(Tail(a), Tail(b))

\* _cosine_similarity as an exact fraction num/den with den > 0, order-preserving:
\* sign(dot) * dot^2 / (|a|^2 |b|^2) in place of dot / (|a| |b|)
CosineSimilarity(a, b) ==
    IF Len(a) # Len(b) \/ a = <<>> THEN [num |-> 0, den |-> 1]
    ELSE IF Dot(a, a) = 0 \/ Dot(b, b) = 0 THEN [num |-> 0, den |-> 1]
    ELSE [num |-> (IF Dot(a, b) < 0 THEN -1 ELSE 1) * Dot(a, b) * Dot(a, b),
          den |-> Dot(a, a) * Dot(b, b)]

SimGreater(x, y) == x.num * y.den > y.num * x.den

\* scored.sort(key=sim, reverse=True): stable, equal scores keep their order
RECURSIVE InsertScored(_, _)
InsertScored(sorted, e) ==
    IF sorted = <<>> THEN <<e>>
    ELSE IF SimGreater(e.sim, Head(sorted).sim) THEN <<e>> \o sorted
    ELSE <<Head(sorted)>> \o InsertScored(Tail(sorted), e)

RECURSIVE SortScored(_)
SortScored(scored) ==
    IF scored = <<>> THEN <<>>
    ELSE InsertScored(SortScored(SubSeq(scored, 1, Len(scored) - 1)),
                      scored[Len(scored)])

\* a search that hands out the stored record itself
NotStripped(v) == v

\* the record search returns for a stored one: embedding=[]
Stripped(v) == [v EXCEPT !.embedding = <<>>]

FilterByMeeting(store, ids) ==
    LET Keep(v) == v.meeting_id \in ids IN SelectSeq(store, Keep)

Search(store, embedding, top_k, meeting_ids) ==
    LET candidates == IF meeting_ids # {} THEN FilterByMeeting(store, meeting_ids)
                      ELSE store
        scored == [k \in 1..Len(candidates) |->
                     [sim |-> CosineSimilarity(embedding, candidates[k].embedding),
                      v |-> candidates[k]]]
        ranked == SortScored(scored)
        top == SubSeq(ranked, 1, MinOf(top_k, Len(ranked)))
    IN [k \in 1..Len(top) |-> Stripped(top[k].v)]

-----------------------------------------------------------------------------
(* GuardrailService *)

\* response.strip().upper()
StripUpper(text) ==
    CASE text = " safe " -> "SAFE"
      [] text = "unsafe" -> "UNSAFE"
      [] OTHER -> text

\* what LLMProviderPort.generate does on the safety prompt
SafetyOutcomes ==
    {[raised |-> FALSE, text |-> t] : t \in {"SAFE", " safe ", "UNSAFE", "SAFE."}}
    \cup {[raised |-> TRUE, text |-> ""]}

\* a validate_input that rejects the question when the LLM call throws
ValidateInputFailClosed(outcome) ==
    IF outcome.raised THEN FALSE ELSE StripUpper(outcome.text) = "SAFE"

\* validate_input
ValidateInput(outcome) ==
    IF outcome.raised THEN TRUE ELSE StripUpper(outcome.text) = "SAFE"

InsufficientContext == "I don't have enough meeting context to verify this answer."

\* a grounding response is the sequence of its parts: markers and free text
GroundingOutcomes ==
    {[raised |-> FALSE, parts |-> p] :
        p \in {<<"VERDICT: PASSED", "REASON: ok">>,
               <<"VERDICT: PASSED", "SAFE_RESPONSE:", "same">>,
               <<"VERDICT: FAILED", "SAFE_RESPONSE:", "corrected">>,
               <<"VERDICT: FAILED", "REASON: unsupported">>}}
    \cup {[raised |-> TRUE, parts |-> <<>>]}

\* response_text.split("SAFE_RESPONSE:")[-1].strip(): what follows the last marker
RECURSIVE AfterLastMarker(_)
AfterLastMarker(parts) ==
    IF parts[Len(parts)] = "SAFE_RESPONSE:" THEN ""
    ELSE IF Len(parts) >= 2 /\ parts[Len(parts) - 1] = "SAFE_RESPONSE:"
         THEN parts[Len(parts)]
         ELSE AfterLastMarker(SubSeq(parts, 1, Len(parts) - 1))

Contains(parts, marker) == \E k \in 1..Len(parts) : parts[k] = marker

\* verify_grounding
VerifyGrounding(answer, contexts, outcome) ==
    IF contexts = <<>> THEN [is_grounded |-> FALSE, safe_answer |-> InsufficientContext]
    ELSE IF outcome.raised THEN [is_grounded |-> TRUE, safe_answer |-> answer]
    ELSE [is_grounded |-> Contains(outcome.parts, "VERDICT: PASSED"),
          safe_answer |-> IF Contains(outcome.parts, "SAFE_RESPONSE:")
                          THEN AfterLastMarker(outcome.parts) ELSE answer]

-----------------------------------------------------------------------------
(* QueryService helpers *)

Questions == {"what was decided"}

\* the meeting_ids argument; {} is None / empty
Filters == {{}, {"m1"}}

\* QueryService top_k
TopK == 2

MeetingOrder == <<"m1", "m2">>

\* sorted({r.meeting_id for r in results})
SortedMeetingIds(results) ==
    LET In(m) == \E k \in 1..Len(results) : results[k].meeting_id = m
    IN SelectSeq(MeetingOrder, In)

\* EmbeddingProviderPort.embed_text
EmbedText(question) == IF question = "" THEN <<0, 0>> ELSE <<1, 1>>

RefusalAnswer == "I'm sorry, but I cannot process that query for safety or professional reasons."

NotFoundAnswer == "I couldn't find any relevant sections in the transcripts to answer your question."

GeneratedAnswer == "generated answer"

CitedAnswer(answer, citations, retrieved_context, meeting_ids) ==
    [kind |-> "CitedAnswer", answer |-> answer, citations |-> citations,
     retrieved_context |-> retrieved_context, meeting_ids |-> meeting_ids]

\* _load_chunk_maps, one meeting: the entries parsed before a failure stay in index
RECURSIVE IndexEntries(_, _)
IndexEntries(index, entries) ==
    IF entries = <<>> THEN index
    ELSE IndexEntries(DictSet(index, Head(entries)), Tail(entries))

\* a lookup that takes whatever entry comes first
LookupAny(index, chunk_id) == index

Lookup(index, chunk_id) ==
    LET Is(e) == e.chunk_id = chunk_id IN SelectSeq(index, Is)

\* r.text[:200]
\* _build_citations
BuildCitations(results, index) ==
    [k \in 1..Len(results) |->
        LET r == results[k]
            found == Lookup(index, r.chunk_id)
        IN IF found # <<>>
           THEN [chunk_id |-> r.chunk_id, meeting_id |-> r.meeting_id,
                 speaker |-> found[1].speaker,
                 timestamp_start |-> found[1].timestamp_start,
                 timestamp_end |-> found[1].timestamp_end,
                 snippet |-> found[1].snippet]
           ELSE [chunk_id |-> r.chunk_id, meeting_id |-> r.meeting_id,
                 speaker |-> r.speaker,
                 timestamp_start |-> "", timestamp_end |-> "",
                 snippet |-> Snippet(r.text, SnippetLen)]]

\* the exceptions a provider or port call of query() may raise
QueryRaises ==
    {[type |-> "RuntimeError", msg |-> "provider down"],
     [type |-> "QueryError", msg |-> "Direct error"]}

\* an except clause that wraps every exception, QueryError included
WrapEveryFailure(exc, question, meeting_ids) ==
    [kind |-> "QueryError", message |-> <<"Query failed", ErrorMsg(exc)>>,
     context |-> [question |-> question, meeting_ids |-> meeting_ids],
     cause |-> exc]

\* except QueryError: raise / except Exception: raise QueryError(...) from exc
BuildQueryFailure(exc, question, meeting_ids) ==
    IF exc.type = "QueryError"
    THEN [kind |-> "QueryError", message |-> <<exc.msg>>,
          context |-> [question |-> "", meeting_ids |-> {}], cause |-> NoExc]
    ELSE [kind |-> "QueryError", message |-> <<"Query failed", ErrorMsg(exc)>>,
          context |-> [question |-> question, meeting_ids |-> meeting_ids],
          cause |-> exc]

-----------------------------------------------------------------------------
(* State *)

InitLoc ==
    [raw_uri |-> <<>>, derived_prefix |-> <<>>, record |-> AbsentItem,
     normalised |-> [meeting_id |-> "", date |-> "", participants |-> {},
                     segments |-> <<>>],
     chunks |-> <<>>, embeddings |-> <<>>, vectors |-> <<>>,
     chunk_map |-> <<>>, chunk_map_uri |-> <<>>,
     exc |-> NoExc, failed_at |-> "none", status_write_ok |-> FALSE]

InitQLoc ==
    [is_safe |-> "unchecked", results |-> <<>>, hit_meeting_ids |-> <<>>,
     to_load |-> <<>>, load_failed |-> {}, chunk_map_index |-> <<>>,
     answer_text |-> "", is_grounded |-> "unchecked", safe_answer |-> "",
     grounding_raised |-> FALSE]

\* nothing uploaded through the API
NoWorker == [state |-> "none", meeting_id |-> ""]

PipelineInit ==
    /\ pc = [i \in Invocations |-> "idle"]
    /\ arg = [i \in Invocations |-> [meeting_id |-> "", content |-> ""]]
    /\ loc = [i \in Invocations |-> InitLoc]
    /\ result = [i \in Invocations |-> NoResult]
    /\ calls = [i \in Invocations |-> <<>>]
    /\ seen = [i \in Invocations |-> {}]
    /\ meta = [m \in MeetingIds |-> AbsentItem]
    /\ vstore = <<>>
    /\ raw = [m \in MeetingIds |-> AbsentObject]
    /\ derived = [m \in MeetingIds |-> AbsentObject]
    /\ qpc = "idle"
    /\ qarg = [question |-> "", meeting_ids |-> {}, guardrails |-> FALSE]
    /\ qloc = InitQLoc
    /\ qresult = NoResult
    /\ qcalls = <<>>
    /\ worker = [i \in Invocations |-> NoWorker]

\* no helper is called directly
NoCall == [op |-> "none"]

Init == PipelineInit /\ unit = NoCall

Ended(i) == pc[i] \in {"returned", "raised"}

\* a failure that is swallowed: the run goes on to the READY write
FailThenContinue(i, step, exc) ==
    /\ pc' = [pc EXCEPT ![i] = "mark_ready"]
    /\ loc' = [loc EXCEPT ![i].exc = exc, ![i].failed_at = step]

\* the except block is entered with the exception of the failed step
Fail(i, step, exc) ==
    /\ pc' = [pc EXCEPT ![i] = "except"]
    /\ loc' = [loc EXCEPT ![i].exc = exc, ![i].failed_at = step]

Invoke(i, step) == calls' = [calls EXCEPT ![i] = Append(@, step)]

-----------------------------------------------------------------------------
(* IngestionService.ingest, one action per step of the handler *)

\* 1. upload_raw + get_derived_prefix; the invocation starts here
UploadRawOf(i, meetings, contents) ==
    /\ pc[i] = "idle"
    /\ \E m \in meetings, c \in contents, ok \in BOOLEAN :
        /\ arg' = [arg EXCEPT ![i] = [meeting_id |-> m, content |-> c]]
        /\ seen' = [seen EXCEPT ![i] = {j \in Invocations : Ended(j)}]
        /\ Invoke(i, "upload_raw")
        /\ IF ok
           THEN /\ raw' = UploadRawObj(raw, m, c)
                /\ loc' = [loc EXCEPT ![i].raw_uri = RawUri(m, Filename),
                                      ![i].derived_prefix = DerivedPrefix(m)]
                /\ pc' = [pc EXCEPT ![i] = "put_pending"]
           ELSE /\ Fail(i, "upload_raw", PortError("upload_raw"))
                /\ UNCHANGED raw
    /\ UNCHANGED <<result, meta, vstore, derived, qvars, unit, worker>>

\* ingest(meeting_id, filename, raw_content) called with any meeting id
UploadRaw(i) == UploadRawOf(i, MeetingIds, Contents)

\* each upload gets a uuid4 meeting id and a worker of its own
OwnMeeting(i) == IF i = "i1" THEN "m1" ELSE "m2"

OwnContents(i) == IF i = "i1" THEN {"review"} ELSE {"empty", "standup"}

UploadRawOwn(i) == UploadRawOf(i, {OwnMeeting(i)}, OwnContents(i))

\* 2. put_meeting(record) with ingestion_status PENDING
PutPending(i) ==
    /\ pc[i] = "put_pending"
    /\ Invoke(i, "put_meeting_pending")
    /\ LET record == PendingRecord(arg[i].meeting_id, Filename, arg[i].content,
                                   loc[i].raw_uri, loc[i].derived_prefix)
       IN \E ok \in BOOLEAN :
            IF ok
            THEN /\ meta' = PutMeeting(meta, record)
                 /\ loc' = [loc EXCEPT ![i].record = record]
                 /\ pc' = [pc EXCEPT ![i] = "parse"]
            ELSE /\ Fail(i, "put_meeting_pending", PortError("put_meeting"))
                 /\ UNCHANGED meta
    /\ UNCHANGED <<arg, result, seen, vstore, raw, derived, qvars, unit, worker>>

\* 3-4. decode, TranscriptParser.parse_text, _normalise
Parse(i) ==
    /\ pc[i] = "parse"
    /\ Invoke(i, "parse")
    /\ IF ParseFails(arg[i].content)
       THEN Fail(i, "parse", ParseError)
       ELSE /\ loc' = [loc EXCEPT ![i].normalised =
                                    Normalise(arg[i].content, arg[i].meeting_id)]
            /\ pc' = [pc EXCEPT ![i] = "put_parsed"]
    /\ UNCHANGED <<arg, result, seen, meta, vstore, raw, derived, qvars, unit, worker>>

\* 4b. record.participants/date set, put_meeting(record) again
PutParsed(i) ==
    /\ pc[i] = "put_parsed"
    /\ Invoke(i, "put_meeting_parsed")
    /\ LET record == ParsedRecord(loc[i].record, loc[i].normalised)
       IN \E ok \in BOOLEAN :
            IF ok
            THEN /\ meta' = PutMeeting(meta, record)
                 /\ loc' = [loc EXCEPT ![i].record = record]
                 /\ pc' = [pc EXCEPT ![i] = "chunk"]
            ELSE /\ Fail(i, "put_meeting_parsed", PortError("put_meeting"))
                 /\ UNCHANGED meta
    /\ UNCHANGED <<arg, result, seen, vstore, raw, derived, qvars, unit, worker>>

\* 5. _chunk_segments
Chunk(i) ==
    /\ pc[i] = "chunk"
    /\ Invoke(i, "chunk")
    /\ loc' = [loc EXCEPT ![i].chunks =
                 ChunkSegments(loc[i].normalised.segments, MaxChunkTokens,
                               ChunkOverlap, i)]
    /\ pc' = [pc EXCEPT ![i] = "embed"]
    /\ UNCHANGED <<arg, result, seen, meta, vstore, raw, derived, qvars, unit, worker>>

\* the lists an EmbeddingProviderPort.embed_texts may hand back for n texts
EmbedReturns(n) == {[k \in 1..len |-> <<1, k - 1>>] : len \in 0..(n + ExtraEmbeddings)}

\* 6. embed_texts(texts)
Embed(i) ==
    /\ pc[i] = "embed"
    /\ Invoke(i, "embed")
    /\ \/ \E embeddings \in EmbedReturns(Len(loc[i].chunks)) :
            /\ loc' = [loc EXCEPT ![i].embeddings = embeddings]
            /\ pc' = [pc EXCEPT ![i] = "store_vectors"]
       \/ Fail(i, "embed", [type |-> "RuntimeError", msg |-> "embed_texts"])
    /\ UNCHANGED <<arg, result, seen, meta, vstore, raw, derived, qvars, unit, worker>>

\* 7. build VectorRecords, store_vectors(vectors)
StoreVectorsStep(i) ==
    /\ pc[i] = "store_vectors"
    /\ Invoke(i, "store_vectors")
    /\ LET vectors == BuildVectors(arg[i].meeting_id, loc[i].chunks, loc[i].embeddings)
       IN \E ok \in BOOLEAN :
            IF ok
            THEN /\ vstore' = StoreVectors(vstore, vectors)
                 /\ loc' = [loc EXCEPT ![i].vectors = vectors]
                 /\ pc' = [pc EXCEPT ![i] = "upload_chunk_map"]
            ELSE /\ Fail(i, "store_vectors", PortError("store_vectors"))
                 /\ UNCHANGED vstore
    /\ UNCHANGED <<arg, result, seen, meta, raw, derived, qvars, unit, worker>>

\* 8. build the chunk map, upload_derived(meeting_id, "chunk_map.json", ...)
UploadChunkMap(i) ==
    /\ pc[i] = "upload_chunk_map"
    /\ Invoke(i, "upload_chunk_map")
    /\ LET chunk_map == BuildChunkMap(arg[i].meeting_id, loc[i].chunks, loc[i].raw_uri)
       IN \E ok \in BOOLEAN :
            IF ok
            THEN /\ derived' = UploadDerived(derived, arg[i].meeting_id, chunk_map)
                 /\ loc' = [loc EXCEPT ![i].chunk_map = chunk_map,
                                       ![i].chunk_map_uri =
                                          DerivedUri(arg[i].meeting_id, "chunk_map.json")]
                 /\ pc' = [pc EXCEPT ![i] = "mark_ready"]
            ELSE /\ Fail(i, "upload_chunk_map", PortError("upload_derived"))
                 /\ UNCHANGED derived
    /\ UNCHANGED <<arg, result, seen, meta, vstore, raw, qvars, unit, worker>>

\* 9-10. update_status(meeting_id, READY), then return the report
MarkReady(i) ==
    /\ pc[i] = "mark_ready"
    /\ Invoke(i, "update_status_ready")
    /\ \E ok \in BOOLEAN :
         IF ok
         THEN /\ meta' = UpdateStatus(meta, arg[i].meeting_id, READY, NoError)
              /\ result' = [result EXCEPT ![i] =
                              BuildReport(arg[i].meeting_id, loc[i].chunks,
                                          loc[i].vectors, loc[i].chunk_map_uri)]
              /\ pc' = [pc EXCEPT ![i] = "returned"]
              /\ UNCHANGED loc
         ELSE /\ Fail(i, "update_status_ready", PortError("update_status"))
              /\ UNCHANGED <<meta, result>>
    /\ UNCHANGED <<arg, seen, vstore, raw, derived, qvars, unit, worker>>

\* except Exception: best-effort update_status(FAILED, error_msg), then
\* raise IngestionError ... from exc
MarkFailed(i) ==
    /\ pc[i] = "except"
    /\ Invoke(i, "update_status_failed")
    /\ \E ok \in BOOLEAN :
         /\ meta' = IF ok
                    THEN UpdateStatus(meta, arg[i].meeting_id, FAILED, ErrorMsg(loc[i].exc))
                    ELSE meta
         /\ loc' = [loc EXCEPT ![i].status_write_ok = ok]
    /\ result' = [result EXCEPT ![i] = BuildIngestionError(arg[i].meeting_id, loc[i].exc)]
    /\ pc' = [pc EXCEPT ![i] = "raised"]
    /\ UNCHANGED <<arg, seen, vstore, raw, derived, qvars, unit, worker>>

-----------------------------------------------------------------------------
(* QueryService.query, one action per port / provider call *)

QInvoke(step) == qcalls' = Append(qcalls, step)

\* the except clauses of query()
QFail(exc) ==
    /\ qresult' = BuildQueryFailure(exc, qarg.question, qarg.meeting_ids)
    /\ qpc' = "raised"

\* a return that hands the answer over and lets the call run on
ReturnAndCarryOn(answer) ==
    /\ qresult' = answer
    /\ qpc' = "embed"

QReturn(answer) ==
    /\ qresult' = answer
    /\ qpc' = "returned"

\* 0. the call starts; guardrails.validate_input(question) when configured
QValidate ==
    /\ qpc = "idle"
    /\ \E question \in Questions, ids \in Filters, guardrails \in BOOLEAN :
        /\ qarg' = [question |-> question, meeting_ids |-> ids,
                    guardrails |-> guardrails]
        /\ IF guardrails
           THEN /\ QInvoke("validate_input")
                /\ \E outcome \in SafetyOutcomes :
                     IF ValidateInput(outcome)
                     THEN /\ qloc' = [qloc EXCEPT !.is_safe = "safe"]
                          /\ qpc' = "embed"
                          /\ UNCHANGED qresult
                     ELSE /\ qloc' = [qloc EXCEPT !.is_safe = "unsafe"]
                          /\ QReturn(CitedAnswer(RefusalAnswer, <<>>, <<>>, <<>>))
           ELSE qpc' = "embed" /\ UNCHANGED <<qloc, qresult, qcalls>>
    /\ UNCHANGED <<ivars, stores, unit, worker>>

\* 1. embed_text(question)
QEmbed ==
    /\ qpc = "embed"
    /\ QInvoke("embed_text")
    /\ \/ qpc' = "search" /\ UNCHANGED qresult
       \/ \E exc \in QueryRaises : QFail(exc)
    /\ UNCHANGED <<qarg, qloc, ivars, stores, unit, worker>>

\* a search step without the early return on no results
QSearchNoEarlyReturn ==
    /\ qpc = "search"
    /\ QInvoke("search")
    /\ \/ LET results == Search(vstore, EmbedText(qarg.question), TopK,
                                qarg.meeting_ids)
          IN /\ qloc' = [qloc EXCEPT !.results = results,
                           !.hit_meeting_ids = SortedMeetingIds(results),
                           !.to_load = SortedMeetingIds(results)]
             /\ qpc' = IF results = <<>> THEN "generate" ELSE "load_chunk_maps"
             /\ UNCHANGED qresult
       \/ /\ \E exc \in QueryRaises : QFail(exc)
          /\ UNCHANGED qloc
    /\ UNCHANGED <<qarg, ivars, stores, unit, worker>>

\* 2-3. vectors.search(...); no results: the fixed answer
QSearch ==
    /\ qpc = "search"
    /\ QInvoke("search")
    /\ \/ LET results == Search(vstore, EmbedText(qarg.question), TopK,
                                qarg.meeting_ids)
          IN IF results = <<>>
             THEN /\ QReturn(CitedAnswer(NotFoundAnswer, <<>>, <<>>, <<>>))
                  /\ UNCHANGED qloc
             ELSE /\ qloc' = [qloc EXCEPT !.results = results,
                                !.hit_meeting_ids = SortedMeetingIds(results),
                                !.to_load = SortedMeetingIds(results)]
                  /\ qpc' = "load_chunk_maps"
                  /\ UNCHANGED qresult
       \/ /\ \E exc \in QueryRaises : QFail(exc)
          /\ UNCHANGED qloc
    /\ UNCHANGED <<qarg, ivars, stores, unit, worker>>

\* a _load_chunk_maps whose download / parse failure leaves the query
QLoadChunkMapAborts ==
    /\ qpc = "load_chunk_maps"
    /\ QInvoke("download_derived")
    /\ LET mid == Head(qloc.to_load)
           rest == Tail(qloc.to_load)
           entries == derived[mid].body
       IN \/ /\ derived[mid].present
             /\ qloc' = [qloc EXCEPT !.to_load = rest,
                           !.chunk_map_index = IndexEntries(@, entries)]
             /\ qpc' = IF rest = <<>> THEN "generate" ELSE "load_chunk_maps"
             /\ UNCHANGED qresult
          \/ /\ QFail(PortError("download_derived"))
             /\ UNCHANGED qloc
    /\ UNCHANGED <<qarg, ivars, stores, unit, worker>>

\* 4. _load_chunk_maps: one iteration of its loop, download_derived(mid, ...)
\*    bad_at = k > 0: entry k of the downloaded map does not parse, the
\*    entries before it are in index already; load_failed records the
\*    meetings whose iteration ended in the except clause
QLoadChunkMap ==
    /\ qpc = "load_chunk_maps"
    /\ QInvoke("download_derived")
    /\ LET mid == Head(qloc.to_load)
           rest == Tail(qloc.to_load)
           entries == derived[mid].body
       IN /\ \/ /\ derived[mid].present
                /\ \E bad_at \in 0..Len(entries) :
                     qloc' = [qloc EXCEPT !.to_load = rest,
                                !.load_failed = IF bad_at = 0 THEN @ ELSE @ \cup {mid},
                                !.chunk_map_index =
                                   IndexEntries(@, IF bad_at = 0 THEN entries
                                                   ELSE SubSeq(entries, 1, bad_at - 1))]
             \/ qloc' = [qloc EXCEPT !.to_load = rest,
                                     !.load_failed = @ \cup {mid}]
          /\ qpc' = IF rest = <<>> THEN "generate" ELSE "load_chunk_maps"
    /\ UNCHANGED <<qarg, qresult, ivars, stores, unit, worker>>

\* a tail of query() that returns the generated answer whatever the verdict
QFinishIgnoresVerdict(answer_text) ==
    QReturn(CitedAnswer(GeneratedAnswer,
                        BuildCitations(qloc.results, qloc.chunk_map_index),
                        [k \in 1..Len(qloc.results) |-> qloc.results[k].text],
                        qloc.hit_meeting_ids))

\* the tail of query(): citations and the CitedAnswer
QFinish(answer_text) ==
    QReturn(CitedAnswer(answer_text,
                        BuildCitations(qloc.results, qloc.chunk_map_index),
                        [k \in 1..Len(qloc.results) |-> qloc.results[k].text],
                        qloc.hit_meeting_ids))

\* 5-6. llm.generate(prompt); without guardrails the call ends here
QGenerate ==
    /\ qpc = "generate"
    /\ QInvoke("generate")
    /\ \/ IF qarg.guardrails
          THEN /\ qloc' = [qloc EXCEPT !.answer_text = GeneratedAnswer]
               /\ qpc' = "verify"
               /\ UNCHANGED qresult
          ELSE /\ QFinish(GeneratedAnswer)
               /\ qloc' = [qloc EXCEPT !.answer_text = GeneratedAnswer]
       \/ /\ \E exc \in QueryRaises : QFail(exc)
          /\ UNCHANGED qloc
    /\ UNCHANGED <<qarg, ivars, stores, unit, worker>>

\* 7-9. guardrails.verify_grounding(answer_text, context_texts), citations, return
QVerify ==
    /\ qpc = "verify"
    /\ QInvoke("verify_grounding")
    /\ \E outcome \in GroundingOutcomes :
         LET contexts == [k \in 1..Len(qloc.results) |-> qloc.results[k].text]
             verdict == VerifyGrounding(qloc.answer_text, contexts, outcome)
             answer_text == IF verdict.is_grounded THEN qloc.answer_text
                            ELSE verdict.safe_answer
         IN /\ QFinish(answer_text)
            /\ qloc' = [qloc EXCEPT !.answer_text = answer_text,
                          !.is_grounded = IF verdict.is_grounded THEN "grounded"
                                          ELSE "ungrounded",
                          !.safe_answer = verdict.safe_answer,
                          !.grounding_raised = outcome.raised]
    /\ UNCHANGED <<qarg, ivars, stores, unit, worker>>

QueryNext ==
    \/ QValidate
    \/ QEmbed
    \/ QSearch
    \/ QLoadChunkMap
    \/ QGenerate
    \/ QVerify

IngestStep(i) ==
        \/ PutPending(i)
        \/ Parse(i)
        \/ PutParsed(i)
        \/ Chunk(i)
        \/ Embed(i)
        \/ StoreVectorsStep(i)
        \/ UploadChunkMap(i)
        \/ MarkReady(i)
        \/ MarkFailed(i)

\* two ingest invocations, of any meeting ids, in any interleaving
Next == \E i \in Invocations : UploadRaw(i) \/ IngestStep(i)

Spec == Init /\ [][Next]_vars

\* two ingest invocations of different meetings and one query, in any interleaving
NextQ ==
    \/ \E i \in Invocations : UploadRawOwn(i) \/ IngestStep(i)
    \/ QueryNext

SpecQuery == Init /\ [][NextQ]_vars

-----------------------------------------------------------------------------
(* The upload endpoint and the worker that runs ingest for it: each upload   *)
(* gets a fresh uuid4 meeting id                                              *)

\* MeetingRecord the upload endpoint writes: PENDING, doc_hash left at its default
UploadRecord(m, filename, raw_uri, derived_prefix) ==
    [meeting_id |-> m, title_normalized |-> TitleOf(filename), meeting_date |-> "",
     participants |-> {}, s3_uri_raw |-> raw_uri,
     s3_uri_derived_prefix |-> derived_prefix, doc_hash |-> <<>>,
     ingestion_status |-> PENDING]

\* upload_transcript_v2: upload_raw, put_meeting(PENDING), trigger the worker;
\* an exception at any of the three answers 500 with what was written so far
ApiUpload(i) ==
    /\ worker[i].state = "none"
    /\ pc[i] = "idle"
    /\ \E c \in OwnContents(i), outcome \in {"accepted", "upload_raw", "put_meeting", "trigger"} :
         LET m == OwnMeeting(i) IN
         /\ raw' = IF outcome = "upload_raw" THEN raw ELSE UploadRawObj(raw, m, c)
         /\ meta' = IF outcome \in {"accepted", "trigger"}
                    THEN PutMeeting(meta, UploadRecord(m, Filename, RawUri(m, Filename),
                                                       DerivedPrefix(m)))
                    ELSE meta
         /\ worker' = [worker EXCEPT ![i] =
                         [state |-> IF outcome = "accepted" THEN "triggered" ELSE "http500",
                          meeting_id |-> m]]
    /\ UNCHANGED <<ivars, vstore, derived, qvars, unit>>

\* worker main / _run_local_ingestion: get the services and download_raw; an
\* exception here is logged and the run ends with exit code 1
WorkerDownload(i) ==
    /\ worker[i].state = "triggered"
    /\ \E ok \in BOOLEAN :
         worker' = [worker EXCEPT ![i].state = IF ok THEN "ingesting" ELSE "exit1"]
    /\ UNCHANGED <<ivars, stores, qvars, unit>>

\* ingestion_svc.ingest(meeting_id, filename, raw_bytes) is entered
WorkerIngest(i) ==
    /\ worker[i].state = "ingesting"
    /\ UploadRawOf(i, {worker[i].meeting_id}, {raw[worker[i].meeting_id].body})

\* ingest returned: return 0; ingest raised: the except block returns 1
WorkerExit(i) ==
    /\ worker[i].state = "ingesting"
    /\ Ended(i)
    /\ worker' = [worker EXCEPT ![i].state = IF pc[i] = "returned" THEN "exit0" ELSE "exit1"]
    /\ UNCHANGED <<ivars, stores, qvars, unit>>

NextWorker ==
    \E i \in Invocations :
        ApiUpload(i) \/ WorkerDownload(i) \/ WorkerIngest(i) \/ IngestStep(i) \/ WorkerExit(i)

SpecWorker == Init /\ [][NextWorker]_vars

-----------------------------------------------------------------------------
(* JsonEvalStoreAdapter: several threads call save and list_results on one   *)
(* adapter; the file is observable between open(path, "w") and json.dump     *)

EvalThreads == {"t1", "t2", "t3"}

MaxSaves == 2

DefaultLimit == 100

\* the data file: absent, or holding valid JSON (a list), or truncated
NoFile == [exists |-> FALSE, valid |-> FALSE, data |-> <<>>]

\* _read_all: [] when the file is missing or does not parse
ReadAll(file) == IF file.exists /\ file.valid THEN file.data ELSE <<>>

\* data[-limit:][::-1] after the optional meeting filter
ListResults(data, meeting_id, limit) ==
    LET Of(d) == d.meeting_id = meeting_id
        kept == IF meeting_id # "" THEN SelectSeq(data, Of) ELSE data
        from == IF limit = 0 \/ limit >= Len(kept) THEN 1 ELSE Len(kept) - limit + 1
        last == SubSeq(kept, from, Len(kept))
    IN [k \in 1..Len(last) |-> last[Len(last) + 1 - k]]

\* a lock that anyone can take at any time
CanAcquireAlways(lock) == TRUE

\* threading.Lock: acquire blocks while the lock is held
CanAcquire(lock) == lock = "free"

EvalIdle ==
    [op |-> "eval_store", file |-> NoFile, lock |-> "free",
     pc |-> [t \in EvalThreads |-> "idle"],
     result |-> [t \in EvalThreads |-> <<>>],
     data |-> [t \in EvalThreads |-> <<>>],
     listed |-> [t \in EvalThreads |-> <<>>],
     order |-> <<>>]

InitEvalStore == PipelineInit /\ unit = EvalIdle

EvalFrame == UNCHANGED <<ivars, stores, qvars, worker>>

\* save: 'with self._lock'; order is the sequence of results by lock acquisition
SaveLock(t) ==
    /\ unit.pc[t] = "idle"
    /\ Len(unit.order) < MaxSaves
    /\ CanAcquire(unit.lock)
    /\ LET r == [eval_id |-> <<t, Len(unit.order) + 1>>,
                 meeting_id |-> IF t = "t1" THEN "m1" ELSE "m2"]
       IN unit' = [unit EXCEPT !.lock = t, !.pc[t] = "save_read",
                               !.result[t] = r, !.order = Append(@, r)]
    /\ EvalFrame

\* data = self._read_all(); data.append(result.model_dump())
SaveRead(t) ==
    /\ unit.pc[t] = "save_read"
    /\ unit' = [unit EXCEPT !.data[t] = Append(ReadAll(unit.file), unit.result[t]),
                            !.pc[t] = "save_open"]
    /\ EvalFrame

\* _write_all: open(path, "w") truncates the file
SaveOpen(t) ==
    /\ unit.pc[t] = "save_open"
    /\ unit' = [unit EXCEPT !.file = [exists |-> TRUE, valid |-> FALSE, data |-> <<>>],
                            !.pc[t] = "save_dump"]
    /\ EvalFrame

\* _write_all: json.dump(data, f) and close
SaveDump(t) ==
    /\ unit.pc[t] = "save_dump"
    /\ unit' = [unit EXCEPT !.file = [exists |-> TRUE, valid |-> TRUE, data |-> unit.data[t]],
                            !.pc[t] = "save_unlock"]
    /\ EvalFrame

\* leaving the with block releases the lock
SaveUnlock(t) ==
    /\ unit.pc[t] = "save_unlock"
    /\ unit' = [unit EXCEPT !.lock = "free", !.pc[t] = "idle"]
    /\ EvalFrame

\* list_results: 'with self._lock'
ListLock(t) ==
    /\ unit.pc[t] = "idle"
    /\ CanAcquire(unit.lock)
    /\ unit' = [unit EXCEPT !.lock = t, !.pc[t] = "list_read"]
    /\ EvalFrame

\* data = self._read_all(), then the lock is released
ListRead(t) ==
    /\ unit.pc[t] = "list_read"
    /\ unit' = [unit EXCEPT !.data[t] = ReadAll(unit.file), !.lock = "free",
                            !.pc[t] = "list_return"]
    /\ EvalFrame

\* filter, slice and reverse outside the lock, and return
ListReturn(t) ==
    /\ unit.pc[t] = "list_return"
    /\ \E meeting_id \in {"", "m2"}, limit \in {1, DefaultLimit} :
          unit' = [unit EXCEPT !.listed[t] = ListResults(unit.data[t], meeting_id, limit),
                               !.pc[t] = "idle"]
    /\ EvalFrame

NextEvalStore ==
    \E t \in EvalThreads :
        \/ SaveLock(t) \/ SaveRead(t) \/ SaveOpen(t) \/ SaveDump(t) \/ SaveUnlock(t)
        \/ ListLock(t) \/ ListRead(t) \/ ListReturn(t)

SpecEvalStore == InitEvalStore /\ [][NextEvalStore]_vars

-----------------------------------------------------------------------------
(* DIContainer: the API request thread asks for the query service while       *)
(* background ingestion threads ask for the ingestion service; every accessor *)
(* is 'if self._x is None: self._x = X(...)' followed by 'return self._x'     *)

DIThreads == {"api", "bg1", "bg2"}

\* the service a thread asks the container for
ServiceOf(t) == IF t = "api" THEN "query_service" ELSE "ingestion_service"

\* an attribute that is None
None == [kind |-> "None"]

ContainerAtStart ==
    [op |-> "di_container",
     vector_store |-> None, ingestion_service |-> None, query_service |-> None,
     constructed |-> 0,
     pc |-> [t \in DIThreads |-> "idle"],
     new |-> [t \in DIThreads |-> None],
     got |-> [t \in DIThreads |-> None],
     service |-> [t \in DIThreads |-> None]]

InitContainer == PipelineInit /\ unit = ContainerAtStart

DIFrame == UNCHANGED <<ivars, stores, qvars, worker>>

ServiceField(u, t) ==
    IF ServiceOf(t) = "query_service" THEN u.query_service ELSE u.ingestion_service

\* get_ingestion_service / get_query_service: 'if self._service is None'
SvcCheck(t) ==
    /\ unit.pc[t] = "idle"
    /\ unit' = IF ServiceField(unit, t) = None
               THEN [unit EXCEPT !.pc[t] = "vs_check"]
               ELSE [unit EXCEPT !.pc[t] = "done", !.service[t] = ServiceField(unit, t)]
    /\ DIFrame

\* get_vector_store: 'if self._vector_store is None'
VsCheck(t) ==
    /\ unit.pc[t] = "vs_check"
    /\ unit' = [unit EXCEPT !.pc[t] = IF unit.vector_store = None THEN "vs_construct"
                                      ELSE "vs_return"]
    /\ DIFrame

\* get_settings(), import, InMemoryVectorStoreAdapter(): a new, empty adapter
VsConstruct(t) ==
    /\ unit.pc[t] = "vs_construct"
    /\ unit' = [unit EXCEPT !.constructed = @ + 1,
                            !.new[t] = [kind |-> "vector_store", id |-> unit.constructed + 1],
                            !.pc[t] = "vs_assign"]
    /\ DIFrame

\* self._vector_store = <the new adapter>
VsAssign(t) ==
    /\ unit.pc[t] = "vs_assign"
    /\ unit' = [unit EXCEPT !.vector_store = unit.new[t], !.pc[t] = "vs_return"]
    /\ DIFrame

\* return self._vector_store
VsReturn(t) ==
    /\ unit.pc[t] = "vs_return"
    /\ unit' = [unit EXCEPT !.got[t] = unit.vector_store, !.pc[t] = "svc_construct"]
    /\ DIFrame

\* self._service = Service(vector_store=<what get_vector_store returned>, ...)
SvcConstruct(t) ==
    /\ unit.pc[t] = "svc_construct"
    /\ LET svc == [kind |-> ServiceOf(t), vector_store |-> unit.got[t], by |-> t]
       IN unit' = IF ServiceOf(t) = "query_service"
                  THEN [unit EXCEPT !.query_service = svc, !.pc[t] = "svc_return"]
                  ELSE [unit EXCEPT !.ingestion_service = svc, !.pc[t] = "svc_return"]
    /\ DIFrame

\* return self._service
SvcReturn(t) ==
    /\ unit.pc[t] = "svc_return"
    /\ unit' = [unit EXCEPT !.service[t] = ServiceField(unit, t), !.pc[t] = "done"]
    /\ DIFrame

NextContainer ==
    \E t \in DIThreads :
        \/ SvcCheck(t) \/ VsCheck(t) \/ VsConstruct(t) \/ VsAssign(t)
        \/ VsReturn(t) \/ SvcConstruct(t) \/ SvcReturn(t)

SpecContainer == InitContainer /\ [][NextContainer]_vars

-----------------------------------------------------------------------------
(* verify_grounding called directly, as the unit tests call it *)

\* LLM responses to the grounding prompt, as sequences of parts
GroundingResponses ==
    GroundingOutcomes \cup
    {[raised |-> FALSE, parts |-> p] :
        p \in {<<"VERDICT: PASSED">>,
               <<"VERDICT: PASSED", "SAFE_RESPONSE:">>,
               <<"SAFE_RESPONSE:", "VERDICT: PASSED">>,
               <<"VERDICT: FAILED">>,
               <<"VERDICT: FAILED", "SAFE_RESPONSE:">>,
               <<"SAFE_RESPONSE:", "corrected">>,
               <<"no verdict">>}}

GroundingCalls ==
    { [op |-> "verify_grounding", state |-> "called",
       answer |-> a, contexts |-> c, outcome |-> o,
       verdict |-> [is_grounded |-> FALSE, safe_answer |-> ""]]
      : a \in {GeneratedAnswer, "another answer"},
        c \in {<<>>, <<"context">>, <<"context", "more context">>},
        o \in GroundingResponses }

InitGrounding == PipelineInit /\ unit \in GroundingCalls

\* the call runs to one of its return statements
VerifyGroundingReturns ==
    /\ unit.op = "verify_grounding"
    /\ unit.state = "called"
    /\ unit' = [unit EXCEPT
                   !.state = "returned",
                   !.verdict = VerifyGrounding(unit.answer, unit.contexts, unit.outcome)]
    /\ UNCHANGED <<ivars, stores, qvars, worker>>

NextGrounding == VerifyGroundingReturns

SpecGrounding == InitGrounding /\ [][NextGrounding]_vars

-----------------------------------------------------------------------------
(* _chunk_segments called directly, as the unit tests call it *)

MaxSegments == 4
MaxWords == 3
MaxTokensArg == 4
MaxOverlapArg == 3

\* NormalizedSegment lists: the timestamp tells the segments of a list apart,
\* the text is kept as its word count, len(text.split())
SegmentLists ==
    UNION { { [k \in 1..n |-> [timestamp |-> k,
                                speaker |-> IF k % 2 = 1 THEN "A" ELSE "B",
                                words |-> w[k]]] : w \in [1..n -> 1..MaxWords] }
            : n \in 0..MaxSegments }

ChunkCalls ==
    { [op |-> "_chunk_segments", state |-> "called",
       segments |-> segs, max_tokens |-> t, overlap |-> o, chunks |-> <<>>]
      : segs \in SegmentLists, t \in 0..MaxTokensArg, o \in 0..MaxOverlapArg }

InitChunk == PipelineInit /\ unit \in ChunkCalls

\* the call runs to its return statement
ChunkSegmentsReturns ==
    /\ unit.op = "_chunk_segments"
    /\ unit.state = "called"
    /\ unit' = [unit EXCEPT
                   !.state = "returned",
                   !.chunks = ChunkSegments(unit.segments, unit.max_tokens,
                                            unit.overlap, "unit")]
    /\ UNCHANGED <<ivars, stores, qvars, worker>>

NextChunk == ChunkSegmentsReturns

SpecChunk == InitChunk /\ [][NextChunk]_vars

-----------------------------------------------------------------------------
(* InMemoryVectorStoreAdapter called directly: any sequence of store_vectors, *)
(* delete_by_meeting and search on one adapter                                 *)

MaxBatch == 2

VSChunkIds == {"c1", "c2", "c3"}

\* the vectors of one meeting point the same way
VSEmbedding(m) == IF m = "m1" THEN <<1, 0>> ELSE <<0, 1>>

VSRecords ==
    { [chunk_id |-> c, meeting_id |-> m, embedding |-> VSEmbedding(m),
       text |-> <<c, m>>, speaker |-> {"A"}]
      : c \in VSChunkIds, m \in MeetingIds }

VSBatches == UNION { [1..n -> VSRecords] : n \in 0..MaxBatch }

\* no search yet, nothing deleted yet
NoSearch ==
    [op |-> "search", called |-> FALSE, deleted |-> FALSE,
     embedding |-> <<>>, top_k |-> 0, meeting_ids |-> {}, results |-> <<>>]

InitVectorStore == PipelineInit /\ unit = NoSearch

VSStoreVectors ==
    /\ \E vectors \in VSBatches : vstore' = StoreVectors(vstore, vectors)
    /\ UNCHANGED <<ivars, meta, raw, derived, qvars, unit, worker>>

VSDeleteByMeeting ==
    /\ \E m \in MeetingIds :
          /\ vstore' = DeleteByMeeting(vstore, m)
          /\ unit' = [unit EXCEPT !.deleted = @ \/ vstore' # vstore]
    /\ UNCHANGED <<ivars, meta, raw, derived, qvars, worker>>

\* search reads self._store and builds new records; it assigns nothing to the store
VSSearch ==
    /\ \E embedding \in {<<1, 0>>, <<1, 1>>}, top_k \in 0..TopK, meeting_ids \in Filters :
          unit' = [unit EXCEPT
                     !.called = TRUE,
                     !.embedding = embedding,
                     !.top_k = top_k,
                     !.meeting_ids = meeting_ids,
                     !.results = Search(vstore, embedding, top_k, meeting_ids)]
    /\ UNCHANGED <<ivars, stores, qvars, worker>>

NextVectorStore == VSStoreVectors \/ VSDeleteByMeeting \/ VSSearch

SpecVectorStore == InitVectorStore /\ [][NextVectorStore]_vars

-----------------------------------------------------------------------------
(* _chunk_segments run one iteration of its outer loop at a time; i is the  *)
(* start index of the next batch, 1-based                                    *)

LoopCalls ==
    { [op |-> "_chunk_segments", state |-> "called",
       segments |-> c.segments, max_tokens |-> c.max_tokens, overlap |-> c.overlap,
       i |-> 0, chunks |-> <<>>] : c \in ChunkCalls }

InitChunkLoop == PipelineInit /\ unit \in LoopCalls

\* the dict appended for the batch segments[first..last], the k-th chunk
ChunkDict(segs, first, last, k) ==
    [chunk_id |-> <<"unit", k>>,
     text |-> SubSeq(segs, first, last),
     timestamp_start |-> segs[first].timestamp,
     timestamp_end |-> segs[last].timestamp,
     speaker |-> {segs[s].speaker : s \in first..last}]

\* 'if not segments: return []', else chunks = [] and i = 0
ChunkEnter ==
    /\ unit.state = "called"
    /\ unit' = IF unit.segments = <<>>
               THEN [unit EXCEPT !.state = "returned"]
               ELSE [unit EXCEPT !.state = "loop", !.i = 1]
    /\ UNCHANGED <<ivars, stores, qvars, worker>>

\* one pass of 'while i < len(segments)': fill the batch, append the chunk, advance
ChunkIterate ==
    /\ unit.state = "loop"
    /\ unit.i <= Len(unit.segments)
    /\ LET j == BatchEnd(unit.segments, unit.i, 0, 0, unit.max_tokens)
           n == j - unit.i
       IN unit' = IF n = 0
                  THEN [unit EXCEPT !.state = "returned"]
                  ELSE [unit EXCEPT
                          !.chunks = Append(@, ChunkDict(unit.segments, unit.i, j - 1,
                                                         Len(unit.chunks) + 1)),
                          !.i = @ + MaxOf(n - unit.overlap, 1)]
    /\ UNCHANGED <<ivars, stores, qvars, worker>>

\* the loop condition fails: return chunks
ChunkLoopEnds ==
    /\ unit.state = "loop"
    /\ unit.i > Len(unit.segments)
    /\ unit' = [unit EXCEPT !.state = "returned"]
    /\ UNCHANGED <<ivars, stores, qvars, worker>>

NextChunkLoop == ChunkEnter \/ ChunkIterate \/ ChunkLoopEnds

\* the interpreter keeps running the call
SpecChunkLoop == InitChunkLoop /\ [][NextChunkLoop]_vars /\ WF_vars(NextChunkLoop)

-----------------------------------------------------------------------------
(* Properties of ingest() *)

\* invocation i takes a step
Steps(i) == pc'[i] # pc[i]

LastCall(i) == calls[i][Len(calls[i])]

\* every other invocation of i's meeting id ended before i started, or has not
\* started: i does not overlap another ingest of the same meeting
RunsAlone(i) ==
    \A j \in Invocations \ {i} :
        \/ j \in seen[i]
        \/ pc[j] = "idle"
        \/ arg[j].meeting_id # arg[i].meeting_id

StatusOf(m) == meta[m].ingestion_status

\* C1, as stated: within one ingest invocation (no other ingest of the meeting
\* overlapping it), whatever the stored status before the call, each step of the
\* invocation leaves the record's status alone, creates it, or moves it
\* PENDING->READY or PENDING->FAILED.
C1_OnlyFromPending ==
    [][\A i \in Invocations, m \in MeetingIds :
         (Steps(i) /\ RunsAlone(i)' /\ arg'[i].meeting_id = m) =>
               \/ StatusOf(m)' = StatusOf(m)
               \/ StatusOf(m) = NoStatus
               \/ StatusOf(m) = PENDING /\ StatusOf(m)' \in {READY, FAILED}]_vars

\* C1, amended: within one ingest invocation that no other ingest of the meeting
\* overlaps, step 2 sets the status to PENDING whatever it was before (READY and
\* FAILED included); a failure of step 1 or 2 writes FAILED over the prior
\* status; every other status change is PENDING->READY or PENDING->FAILED, so
\* READY is only ever written over PENDING.
C1_StatusMoves ==
    [][\A i \in Invocations, m \in MeetingIds :
         (Steps(i) /\ RunsAlone(i)' /\ arg'[i].meeting_id = m) =>
               \/ StatusOf(m)' = StatusOf(m)
               \/ StatusOf(m)' = PENDING /\ LastCall(i)' = "put_meeting_pending"
               \/ StatusOf(m) = PENDING /\ StatusOf(m)' \in {READY, FAILED}
               \/ /\ StatusOf(m)' = FAILED
                  /\ loc'[i].failed_at \in {"upload_raw", "put_meeting_pending"}]_vars

\* C1 witness: a re-ingestion of a READY meeting has run alone to READY again
C1_Witness ==
    \E i \in Invocations :
        /\ pc[i] = "returned"
        /\ RunsAlone(i)
        /\ \E j \in seen[i] : arg[j].meeting_id = arg[i].meeting_id /\ pc[j] = "returned"
        /\ StatusOf(arg[i].meeting_id) = READY

\* ingest has just raised
Raises(i) == pc[i] = "except" /\ pc'[i] = "raised"

PipelineOrder ==
    <<"upload_raw", "put_meeting_pending", "parse", "put_meeting_parsed", "chunk",
      "embed", "store_vectors", "upload_chunk_map", "update_status_ready">>

\* C3: the calls of every ingest run are a prefix of the pipeline order, each
\* step at most once; after a failed step the only further call is the FAILED
\* status write; a run that returns has made every call, with no failure.
C3_PipelineOrder ==
    \A i \in Invocations :
        /\ \E n \in 0..Len(PipelineOrder) :
              \/ /\ calls[i] = SubSeq(PipelineOrder, 1, n)
                 /\ pc[i] # "raised"
                 /\ loc[i].failed_at # "none" => (n >= 1 /\ loc[i].failed_at = PipelineOrder[n])
              \/ /\ n >= 1
                 /\ calls[i] = Append(SubSeq(PipelineOrder, 1, n), "update_status_failed")
                 /\ loc[i].failed_at = PipelineOrder[n]
                 /\ pc[i] = "raised"
        /\ pc[i] = "returned" => (calls[i] = PipelineOrder /\ loc[i].failed_at = "none")

\* C3 witness: a run failed at store_vectors and stopped after the status write
C3_Witness ==
    \E i \in Invocations :
        /\ pc[i] = "raised"
        /\ loc[i].failed_at = "store_vectors"
        /\ Len(calls[i]) = 8

\* the exception the failed step of invocation i raised
StepFailure(i) ==
    CASE loc[i].failed_at = "parse" -> ParseError
      [] loc[i].failed_at = "embed" -> [type |-> "RuntimeError", msg |-> "embed_texts"]
      [] loc[i].failed_at = "upload_raw" -> PortError("upload_raw")
      [] loc[i].failed_at = "store_vectors" -> PortError("store_vectors")
      [] loc[i].failed_at = "upload_chunk_map" -> PortError("upload_derived")
      [] loc[i].failed_at = "update_status_ready" -> PortError("update_status")
      [] OTHER -> PortError("put_meeting")

\* C4: when a pipeline step fails and the best-effort update_status(FAILED)
\* write fails too, ingest still raises IngestionError whose message reports,
\* and whose cause is, the exception of the failed step.
C4_OriginalFailureKept ==
    \A i \in Invocations :
        (pc[i] = "raised" /\ ~loc[i].status_write_ok) =>
            /\ result[i].kind = "IngestionError"
            /\ result[i].cause = StepFailure(i)
            /\ result[i].message =
                  <<"Ingestion failed for", arg[i].meeting_id, ErrorMsg(StepFailure(i))>>

\* C4 witness: parsing failed, the FAILED write failed, ingest has raised
C4_Witness ==
    \E i \in Invocations :
        /\ pc[i] = "raised"
        /\ loc[i].failed_at = "parse"
        /\ ~loc[i].status_write_ok
        /\ StatusOf(arg[i].meeting_id) = PENDING

\* C5: a failure inside ingest surfaces only as IngestionError carrying the
\* meeting id and the original exception as cause; a failure inside query
\* surfaces only as QueryError: an exception that is not a QueryError is
\* wrapped with the question and kept as cause, a QueryError raised inside is
\* passed through as it was raised.
C5_OwnErrorKind ==
    /\ \A i \in Invocations :
          pc[i] = "raised" =>
              /\ result[i].kind = "IngestionError"
              /\ result[i].context.meeting_id = arg[i].meeting_id
              /\ result[i].cause = StepFailure(i)
    /\ qpc = "raised" =>
          /\ qresult.kind = "QueryError"
          /\ \E exc \in QueryRaises :
                IF exc.type = "QueryError"
                THEN /\ qresult.message = <<exc.msg>>
                     /\ qresult.cause = NoExc
                     /\ qresult.context.question = ""
                ELSE /\ qresult.message = <<"Query failed", ErrorMsg(exc)>>
                     /\ qresult.cause = exc
                     /\ qresult.context.question = qarg.question

\* C5 witness: a QueryError raised inside query came out unwrapped, and an
\* ingest has raised its IngestionError
C5_Witness ==
    /\ qpc = "raised"
    /\ qresult.cause = NoExc
    /\ \E i \in Invocations : pc[i] = "raised" /\ loc[i].failed_at = "store_vectors"

\* the stored vectors of meeting m
VectorsOf(m) == {vstore[k] : k \in {n \in 1..Len(vstore) : vstore[n].meeting_id = m}}

SeqRange(seq) == {seq[k] : k \in 1..Len(seq)}

\* what a successful run of invocation i, alone, leaves in the metadata store
ReadyItem(i) == UpdateStatus(PutMeeting(meta, loc[i].record), arg[i].meeting_id,
                             READY, NoError)[arg[i].meeting_id]

\* invocations i and j overlapped in time
Concurrent(i, j) == i # j /\ i \notin seen[j] /\ j \notin seen[i]

\* C6, as stated: once two concurrent ingest calls of one meeting id have both
\* returned, the metadata record, the meeting's vector set and its chunk map
\* are exactly those of one of them, the last writer, with nothing left over
\* from the other.
C6_LastWriteWins ==
    \A i, j \in Invocations :
        (/\ Concurrent(i, j)
         /\ pc[i] = "returned" /\ pc[j] = "returned"
         /\ arg[i].meeting_id = arg[j].meeting_id) =>
            \E w \in {i, j} :
                /\ VectorsOf(arg[w].meeting_id) = SeqRange(loc[w].vectors)
                /\ derived[arg[w].meeting_id].body = loc[w].chunk_map
                /\ meta[arg[w].meeting_id] = ReadyItem(w)

\* C7, as stated: the stored status of a meeting moves only PENDING->READY or
\* PENDING->FAILED (after the record is created); READY and FAILED are never left.
C7_Terminal ==
    [][\A m \in MeetingIds :
         \/ StatusOf(m)' = StatusOf(m)
         \/ StatusOf(m) = NoStatus
         \/ StatusOf(m) = PENDING /\ StatusOf(m)' \in {READY, FAILED}]_vars

\* C7, amended: the stored status of a meeting changes only in three ways, each
\* from any prior status: to PENDING by a put_meeting of an invocation for that
\* meeting (so a re-ingestion leaves READY or FAILED), to READY by the
\* update_status of an invocation that completed every earlier step, and to
\* FAILED by the update_status of an invocation whose step failed.
C7_StatusWrites ==
    [][\A m \in MeetingIds :
         StatusOf(m)' # StatusOf(m) =>
            \E i \in Invocations :
                /\ Steps(i)
                /\ arg'[i].meeting_id = m
                /\ \/ /\ StatusOf(m)' = PENDING
                      /\ LastCall(i)' \in {"put_meeting_pending", "put_meeting_parsed"}
                   \/ /\ StatusOf(m)' = READY
                      /\ calls'[i] = PipelineOrder
                      /\ pc'[i] = "returned"
                   \/ /\ StatusOf(m)' = FAILED
                      /\ LastCall(i)' = "update_status_failed"
                      /\ loc'[i].failed_at # "none"]_vars

\* C7 witness: a meeting that was FAILED has been re-ingested and is READY
C7_Witness ==
    \E i \in Invocations :
        /\ pc[i] = "returned"
        /\ StatusOf(arg[i].meeting_id) = READY
        /\ \E j \in seen[i] : /\ arg[j].meeting_id = arg[i].meeting_id
                              /\ pc[j] = "raised"
                              /\ loc[j].status_write_ok

\* C9, as stated: after a second successful ingest of a meeting id, the vector
\* store holds for that meeting only the vectors of the second run and the
\* metadata record is the second run's.
C9_ReingestOverwrites ==
    \A i \in Invocations :
        \A j \in seen[i] :
            (/\ pc[i] = "returned" /\ pc[j] = "returned"
             /\ arg[i].meeting_id = arg[j].meeting_id) =>
                /\ VectorsOf(arg[i].meeting_id) = SeqRange(loc[i].vectors)
                /\ meta[arg[i].meeting_id] = ReadyItem(i)

\* C10, as stated: every ingest call that returns, returns a report with status
\* READY, embeddings_stored equal to chunks_created and exactly one derived
\* artifact, and stored as many vector records as it uploaded chunk-map
\* entries, whatever list the embedding provider returned.
C10_ReportConsistent ==
    \A i \in Invocations :
        pc[i] = "returned" =>
            /\ result[i].status = READY
            /\ result[i].embeddings_stored = result[i].chunks_created
            /\ Len(result[i].derived_artifacts) = 1
            /\ Len(loc[i].vectors) = Len(loc[i].chunk_map)

\* how many pipeline steps of invocation i succeeded
StepsDone(i) ==
    IF loc[i].failed_at = "none" THEN Len(calls[i])
    ELSE (CHOOSE n \in 1..Len(PipelineOrder) : PipelineOrder[n] = loc[i].failed_at) - 1

\* the record, chunks and stores the run of invocation i produces on its own,
\* from empty stores, given the same input, the same embeddings and the same
\* point of failure
AloneRecord(i) ==
    LET m == arg[i].meeting_id
        pending == PendingRecord(m, Filename, arg[i].content, RawUri(m, Filename),
                                 DerivedPrefix(m))
    IN IF StepsDone(i) >= 4
       THEN ParsedRecord(pending, Normalise(arg[i].content, m))
       ELSE pending

AloneChunks(i) ==
    ChunkSegments(Normalise(arg[i].content, arg[i].meeting_id).segments,
                  MaxChunkTokens, ChunkOverlap, i)

AloneMeta(i) ==
    LET m == arg[i].meeting_id
        put == IF StepsDone(i) >= 2 THEN ToItem(AloneRecord(i)) ELSE AbsentItem
        status == IF StepsDone(i) = Len(PipelineOrder) THEN READY
                  ELSE IF pc[i] = "raised" /\ loc[i].status_write_ok THEN FAILED
                  ELSE "unwritten"
    IN IF status = "unwritten" THEN put
       ELSE [put EXCEPT !.present = TRUE, !.ingestion_status = status,
                        !.ingested_at = TRUE,
                        !.error_message = IF status = FAILED
                                          THEN ErrorMsg(StepFailure(i)) ELSE NoError]

AloneVectors(i) ==
    IF StepsDone(i) >= 7
    THEN BuildVectors(arg[i].meeting_id, AloneChunks(i), loc[i].embeddings)
    ELSE <<>>

AloneChunkMap(i) ==
    IF StepsDone(i) >= 8
    THEN [present |-> TRUE,
          body |-> BuildChunkMap(arg[i].meeting_id, AloneChunks(i),
                                 RawUri(arg[i].meeting_id, Filename))]
    ELSE AbsentObject

StoredVectors(m) ==
    LET Of(v) == v.meeting_id = m IN SelectSeq(vstore, Of)

\* C8: with two ingest calls of different meeting ids and a query running
\* concurrently, once an ingest call has ended its meeting's metadata record,
\* stored vectors and chunk map are those the same call produces when run alone.
C8_NoInterference ==
    \A i \in Invocations :
        Ended(i) =>
            /\ meta[arg[i].meeting_id] = AloneMeta(i)
            /\ StoredVectors(arg[i].meeting_id) = AloneVectors(i)
            /\ derived[arg[i].meeting_id] = AloneChunkMap(i)

\* C8 witness: both ingests returned after overlapping each other, and a query
\* that searched while only one vector was stored has returned
C8_Witness ==
    /\ Concurrent("i1", "i2")
    /\ pc["i1"] = "returned" /\ pc["i2"] = "returned"
    /\ Len(StoredVectors("m1")) = 2 /\ Len(StoredVectors("m2")) = 1
    /\ qpc = "returned"
    /\ qarg.meeting_ids = {}
    /\ Len(qresult.citations) = 1

C12_RawUriDiscoverable ==
    \A i \in Invocations :
        (pc[i] # "idle" /\ StepsDone(i) >= 2) =>
            /\ meta[arg[i].meeting_id].present
            /\ meta[arg[i].meeting_id].s3_uri_raw = loc[i].raw_uri
            /\ loc[i].raw_uri = RawUri(arg[i].meeting_id, Filename)

\* C12 witness: parsing failed after step 2, the record was marked FAILED and
\* still carries the raw URI
C12_Witness ==
    \E i \in Invocations :
        /\ pc[i] = "raised"
        /\ loc[i].failed_at = "parse"
        /\ StatusOf(arg[i].meeting_id) = FAILED
        /\ meta[arg[i].meeting_id].s3_uri_raw = RawUri(arg[i].meeting_id, Filename)

-----------------------------------------------------------------------------
(* Properties of query() *)

QEnded == qpc \in {"returned", "raised"}

LastQCall == qcalls[Len(qcalls)]

\* C13: when a guardrail is configured and validate_input rejects the
\* question, query returns the fixed refusal answer with empty citations,
\* retrieved context and meeting ids, and the only call of that query is
\* validate_input: no embed_text, search, download_derived or generate.
C13_RefusalShortCircuits ==
    qloc.is_safe = "unsafe" =>
        /\ qarg.guardrails
        /\ qpc = "returned"
        /\ qresult = CitedAnswer(RefusalAnswer, <<>>, <<>>, <<>>)
        /\ qcalls = <<"validate_input">>

\* C13 witness: a question was rejected while the vector store held vectors
C13_Witness ==
    /\ qloc.is_safe = "unsafe"
    /\ qpc = "returned"
    /\ Len(vstore) >= 2

\* C14: when the vector search returns no results, query returns normally with
\* the fixed "couldn't find" answer, empty citations and meeting ids, and
\* search is the last call of the query: no download_derived, generate or
\* verify_grounding; with results the query goes on to load the chunk maps.
C14_NoHitsAnswer ==
    [][/\ (qpc = "search" /\ qpc' \notin {"search", "raised"}) =>
            IF Search(vstore, EmbedText(qarg.question), TopK, qarg.meeting_ids) = <<>>
            THEN /\ qpc' = "returned"
                 /\ qresult' = CitedAnswer(NotFoundAnswer, <<>>, <<>>, <<>>)
                 /\ LastQCall' = "search"
            ELSE qpc' = "load_chunk_maps"
       /\ QEnded => UNCHANGED qvars]_vars

\* C14 witness: a search filtered to a meeting without vectors found nothing
\* although the store held vectors, and the fixed answer came back
C14_Witness ==
    /\ qpc = "returned"
    /\ qresult.answer = NotFoundAnswer
    /\ qarg.meeting_ids = {"m1"}
    /\ Len(vstore) >= 1
    /\ LastQCall = "search"

\* how many times query has called step
RECURSIVE QCallCount(_, _)
QCallCount(history, step) ==
    IF history = <<>> THEN 0
    ELSE (IF Head(history) = step THEN 1 ELSE 0) + QCallCount(Tail(history), step)

\* C15: a chunk-map download or parse failure, for any subset of the hit
\* meetings, never aborts the query: download_derived is attempted once for
\* every distinct hit meeting id, the query never raises out of the loading
\* loop, generate is called after it, and a query that returns after hits
\* returns a CitedAnswer with one citation per retrieved record.
C15_LoadFailureTolerated ==
    /\ qloc.load_failed \subseteq SeqRange(qloc.hit_meeting_ids)
    /\ qloc.hit_meeting_ids = SortedMeetingIds(qloc.results)
    /\ qpc = "raised" => LastQCall \in {"embed_text", "search", "generate"}
    /\ (qpc \notin {"idle", "embed", "search", "load_chunk_maps"} /\ qloc.results # <<>>) =>
          /\ QCallCount(qcalls, "download_derived") = Len(qloc.hit_meeting_ids)
          /\ QCallCount(qcalls, "generate") = IF qpc = "generate" THEN 0 ELSE 1
          /\ qpc = "raised" => LastQCall = "generate"
    /\ (qpc = "returned" /\ qloc.results # <<>>) =>
          /\ qresult.kind = "CitedAnswer"
          /\ Len(qresult.citations) = Len(qloc.results)
          /\ \A k \in 1..Len(qloc.results) :
                qresult.citations[k].chunk_id = qloc.results[k].chunk_id

\* C15 witness: the hits came from two meetings, both chunk maps failed to
\* load, and the query returned two citations
C15_Witness ==
    /\ qpc = "returned"
    /\ qloc.load_failed = {"m1", "m2"}
    /\ Len(qresult.citations) = 2

\* the entries of the loaded chunk maps that carry chunk_id
EntriesOf(chunk_id) == {e \in SeqRange(qloc.chunk_map_index) : e.chunk_id = chunk_id}

\* C16: in the answer of a query, the citation of a retrieved record whose
\* chunk id is absent from the loaded chunk maps has empty timestamp_start and
\* timestamp_end, the record's own chunk id, meeting id and speaker, and a
\* snippet cut from the record's own text; the citation of a record whose
\* chunk id is present takes speaker, time range and snippet from the entry of
\* that chunk id.
C16_CitationSource ==
    (qpc = "returned" /\ qloc.results # <<>>) =>
        \A k \in 1..Len(qloc.results) :
            LET r == qloc.results[k]
                c == qresult.citations[k]
            IN /\ c.chunk_id = r.chunk_id
               /\ c.meeting_id = r.meeting_id
               /\ IF EntriesOf(r.chunk_id) = {}
                  THEN /\ c.timestamp_start = "" /\ c.timestamp_end = ""
                       /\ c.speaker = r.speaker
                       /\ c.snippet = Snippet(r.text, SnippetLen)
                  ELSE \A e \in EntriesOf(r.chunk_id) :
                          /\ c.speaker = e.speaker
                          /\ c.timestamp_start = e.timestamp_start
                          /\ c.timestamp_end = e.timestamp_end
                          /\ c.snippet = e.snippet

\* C16 witness: an answer cites one chunk found in a chunk map and one chunk
\* absent from it, while the map holds an entry of another chunk
C16_Witness ==
    /\ qpc = "returned"
    /\ Len(qloc.results) = 2
    /\ EntriesOf(qloc.results[1].chunk_id) = {}
    /\ EntriesOf(qloc.results[2].chunk_id) # {}
    /\ qresult.citations[1].timestamp_start = ""
    /\ qresult.citations[2].timestamp_start # ""

\* C17: with a guardrail configured, the answer of a query that returns after
\* hits is the safe answer of verify_grounding when it reports not grounded
\* and the generation provider's output when it reports grounded; citations,
\* retrieved context and meeting ids are the same in both cases.
C17_GroundingOverride ==
    (qpc = "returned" /\ qarg.guardrails /\ qloc.results # <<>>) =>
        /\ qloc.is_grounded \in {"grounded", "ungrounded"}
        /\ qloc.is_grounded = "grounded" => qresult.answer = GeneratedAnswer
        /\ qloc.is_grounded = "ungrounded" => qresult.answer = qloc.safe_answer
        /\ qresult.citations = BuildCitations(qloc.results, qloc.chunk_map_index)
        /\ qresult.retrieved_context =
              [k \in 1..Len(qloc.results) |-> qloc.results[k].text]
        /\ qresult.meeting_ids = qloc.hit_meeting_ids

\* C17 witness: the grounding check failed an answer and its correction was
\* returned with the citations
C17_Witness ==
    /\ qpc = "returned"
    /\ qloc.is_grounded = "ungrounded"
    /\ qresult.answer = "corrected"
    /\ Len(qresult.citations) >= 1

\* C18: both guardrail checks fail open and never propagate a failure: when
\* the LLM call throws, validate_input returns True and verify_grounding (with
\* contexts) returns (True, the original answer); a query never raises out of
\* a guardrail call, and a query whose grounding call threw returns the generated answer with its
\* citations, as if the answer were grounded.
C18_GuardrailsFailOpen ==
    /\ \A outcome \in SafetyOutcomes : outcome.raised => ValidateInput(outcome)
    /\ \A outcome \in GroundingOutcomes :
          outcome.raised =>
              VerifyGrounding(GeneratedAnswer, <<"context">>, outcome) =
                  [is_grounded |-> TRUE, safe_answer |-> GeneratedAnswer]
    /\ qpc = "raised" => LastQCall \notin {"validate_input", "verify_grounding"}
    /\ (qpc = "returned" /\ qloc.grounding_raised) =>
          /\ qloc.is_grounded = "grounded"
          /\ qresult = CitedAnswer(GeneratedAnswer,
                                   BuildCitations(qloc.results, qloc.chunk_map_index),
                                   [k \in 1..Len(qloc.results) |-> qloc.results[k].text],
                                   qloc.hit_meeting_ids)

\* C18 witness: the grounding call threw after the question passed the gate,
\* and the query returned the generated answer with a citation
C18_Witness ==
    /\ qpc = "returned"
    /\ qloc.is_safe = "safe"
    /\ qloc.grounding_raised
    /\ qresult.answer = GeneratedAnswer
    /\ Len(qresult.citations) >= 1

-----------------------------------------------------------------------------
(* Properties of _chunk_segments *)

ChunkReturned == unit.op = "_chunk_segments" /\ unit.state = "returned"

\* C19: for a non-empty segment list, max_tokens >= 1 and overlap >= 0, every
\* input segment is in at least one chunk _chunk_segments returns, and the
\* segments of each chunk are a contiguous run of the input, in input order.
C19_ChunkCoverage ==
    (ChunkReturned /\ unit.segments # <<>> /\ unit.max_tokens >= 1 /\ unit.overlap >= 0) =>
        /\ \A k \in 1..Len(unit.segments) :
              \E c \in 1..Len(unit.chunks) :
                  \E p \in 1..Len(unit.chunks[c].text) :
                      unit.chunks[c].text[p] = unit.segments[k]
        /\ \A c \in 1..Len(unit.chunks) :
              \E a \in 1..Len(unit.segments) :
                  \E b \in a..Len(unit.segments) :
                      unit.chunks[c].text = SubSeq(unit.segments, a, b)

\* C19 witness: a call that returned several chunks, one of them of several
\* segments, with a segment that is in two chunks
C19_Witness ==
    /\ ChunkReturned
    /\ unit.max_tokens >= 1
    /\ Len(unit.chunks) >= 3
    /\ \E c \in 1..Len(unit.chunks) : Len(unit.chunks[c].text) >= 2
    /\ \E c \in 1..(Len(unit.chunks) - 1) :
          unit.chunks[c].text[Len(unit.chunks[c].text)] = unit.chunks[c + 1].text[1]

ChunksHolding(k) ==
    { c \in 1..Len(unit.chunks) :
        \E p \in 1..Len(unit.chunks[c].text) : unit.chunks[c].text[p] = unit.segments[k] }

\* C21 as stated: no segment is in more than two chunks, and a segment that is
\* in two chunks is in two chunks that are adjacent in the chunk list.
C21_AtMostTwoChunks ==
    ChunkReturned =>
        \A k \in 1..Len(unit.segments) :
            /\ Cardinality(ChunksHolding(k)) <= 2
            /\ \A c, d \in ChunksHolding(k) : c - d \in {0 - 1, 0, 1}

\* C21 amended: a segment is in at most overlap + 1 chunks, and the chunks it
\* is in are consecutive in the chunk list; so with overlap <= 1 no segment is
\* in more than two chunks, and with overlap = 0 every segment is in one chunk.
C21_OverlapPlusOneChunks ==
    (ChunkReturned /\ unit.overlap >= 0) =>
        \A k \in 1..Len(unit.segments) :
            /\ Cardinality(ChunksHolding(k)) <= unit.overlap + 1
            /\ \A c, d \in ChunksHolding(k) :
                  \A e \in c..d : e \in ChunksHolding(k)
            /\ unit.overlap = 0 => Cardinality(ChunksHolding(k)) = 1

\* C21 witness: a call with overlap 2 returned chunks such that one segment
\* is in one chunk, one in two and one in three
C21_Witness ==
    /\ ChunkReturned
    /\ unit.overlap = 2
    /\ \E k \in 1..Len(unit.segments) : Cardinality(ChunksHolding(k)) = 1
    /\ \E k \in 1..Len(unit.segments) : Cardinality(ChunksHolding(k)) = 2
    /\ \E k \in 1..Len(unit.segments) : Cardinality(ChunksHolding(k)) = 3

\* C25: _chunk_segments terminates for every segment list, max_tokens and
\* overlap >= 0: each pass of the loop appends one chunk and moves the start
\* index forward by at least 1, so there are never more chunks than segments,
\* the call returns, and an empty input returns an empty list.
C25_Terminates ==
    /\ [][(unit.state = "loop" /\ unit'.state = "loop") =>
              /\ unit'.i >= unit.i + 1
              /\ Len(unit'.chunks) = Len(unit.chunks) + 1]_vars
    /\ [](/\ Len(unit.chunks) <= Len(unit.segments)
          /\ unit.state = "loop" => Len(unit.chunks) <= unit.i - 1
          /\ (unit.state = "returned" /\ unit.segments = <<>>) => unit.chunks = <<>>)
    /\ <>(unit.state = "returned")

\* C25 witness: a call returned as many chunks as it had segments, several,
\* with an overlap at least as large as every batch and a segment that alone
\* exceeds max_tokens
C25_Witness ==
    /\ unit.state = "returned"
    /\ Len(unit.segments) >= 3
    /\ Len(unit.chunks) = Len(unit.segments)
    /\ \A c \in 1..Len(unit.chunks) : Len(unit.chunks[c].text) <= unit.overlap
    /\ \E c \in 1..Len(unit.chunks) : Len(unit.chunks[c].text) >= 2
    /\ \E k \in 1..Len(unit.segments) : unit.segments[k].words > unit.max_tokens

\* C23: at every point of every run the vector store, which is all a query
\* searches, holds vectors of a meeting only if that meeting's record has
\* status READY.
C23_VectorsOnlyWhenReady ==
    \A m \in MeetingIds : VectorsOf(m) # {} => StatusOf(m) = READY

WorkerEnded(i) == worker[i].state \in {"exit0", "exit1"}

\* C24: every meeting that was put in PENDING reaches READY or FAILED: once
\* its worker run has ended (exit 0 or 1, ingest returned or raised) the stored
\* status of the meeting is not PENDING.
C24_EndedNotPending ==
    \A i \in Invocations :
        WorkerEnded(i) => StatusOf(worker[i].meeting_id) # PENDING

\* C28: a chunk map that fails to load is skipped as a whole: when the download
\* or the parsing of a meeting's chunk map raised, at whatever entry, no entry
\* of that map is used, and every citation of a hit of that meeting is a
\* fallback citation with an empty time range.
C28_FailedMapUnused ==
    /\ \A e \in SeqRange(qloc.chunk_map_index) : e.meeting_id \notin qloc.load_failed
    /\ (qpc = "returned" /\ qloc.results # <<>>) =>
          \A k \in 1..Len(qloc.results) :
              qloc.results[k].meeting_id \in qloc.load_failed =>
                  /\ qresult.citations[k].timestamp_start = ""
                  /\ qresult.citations[k].timestamp_end = ""

-----------------------------------------------------------------------------
(* Properties of the JSON eval store *)

\* C29: for every interleaving of save and list_results calls of several
\* threads on one adapter, whenever no save is in progress the file holds
\* every saved result exactly once, in the order the saves took the lock; a
\* completed save never removes or alters an earlier result; and a listing
\* only returns saved results.
C29_AppendOnly ==
    /\ [](/\ unit.lock = "free" => unit.file.data = unit.order
          /\ unit.lock = "free" /\ unit.order # <<>> => unit.file.exists /\ unit.file.valid
          /\ \A a, b \in 1..Len(unit.order) :
                unit.order[a].eval_id = unit.order[b].eval_id => a = b
          /\ \A t \in EvalThreads : \A k \in 1..Len(unit.listed[t]) :
                \E a \in 1..Len(unit.order) : unit.order[a] = unit.listed[t][k])
    /\ [][(unit.file.valid /\ unit'.file.valid) =>
              /\ Len(unit'.file.data) >= Len(unit.file.data)
              /\ SubSeq(unit'.file.data, 1, Len(unit.file.data)) = unit.file.data]_vars

\* C29 witness: saves of two threads have completed, a third thread listed
\* one result between them, and a later listing returned both, newest first
C29_Witness ==
    /\ unit.lock = "free"
    /\ \A t \in EvalThreads : unit.pc[t] = "idle"
    /\ Len(unit.file.data) = 2
    /\ unit.file.data[1].eval_id[1] # unit.file.data[2].eval_id[1]
    /\ \E t \in EvalThreads :
          unit.listed[t] = <<unit.file.data[2], unit.file.data[1]>>
    /\ \E t \in EvalThreads : unit.listed[t] = <<unit.file.data[1]>>

-----------------------------------------------------------------------------
(* Properties of the DI container *)

\* C30: every accessor is a lazy singleton, also under concurrent calls from
\* the API thread and the background ingestion threads: the vector store is
\* constructed at most once, every caller of an accessor receives the same
\* instance, and the ingestion and query services hold the same vector store.
C30_LazySingleton ==
    /\ unit.constructed <= 1
    /\ \A t, u \in DIThreads :
          (unit.got[t] # None /\ unit.got[u] # None) => unit.got[t] = unit.got[u]
    /\ \A t, u \in DIThreads :
          (unit.pc[t] = "done" /\ unit.pc[u] = "done" /\ ServiceOf(t) = ServiceOf(u)) =>
              unit.service[t] = unit.service[u]
    /\ \A t, u \in DIThreads :
          (unit.pc[t] = "done" /\ unit.pc[u] = "done") =>
              unit.service[t].vector_store = unit.service[u].vector_store

-----------------------------------------------------------------------------
(* Properties of verify_grounding *)

\* C27: for every model response, with the pass marker present (a SAFE_RESPONSE
\* marker included or not) verify_grounding returns (True, the caller's
\* answer); with the pass marker absent it returns (False, the corrected
\* answer), or (False, the caller's answer) if no correction was supplied.
C27_GroundedKeepsAnswer ==
    (/\ unit.op = "verify_grounding"
     /\ unit.state = "returned"
     /\ unit.contexts # <<>>
     /\ ~unit.outcome.raised) =>
        IF Contains(unit.outcome.parts, "VERDICT: PASSED")
        THEN unit.verdict = [is_grounded |-> TRUE, safe_answer |-> unit.answer]
        ELSE unit.verdict =
                 [is_grounded |-> FALSE,
                  safe_answer |-> IF Contains(unit.outcome.parts, "SAFE_RESPONSE:")
                                  THEN AfterLastMarker(unit.outcome.parts)
                                  ELSE unit.answer]

-----------------------------------------------------------------------------
(* Properties of the in-memory vector store *)

\* C22: after any sequence of store_vectors and delete_by_meeting calls,
\* search returns at most top_k records with pairwise distinct chunk ids, each
\* a stored record with an empty embedding; with a meeting filter every
\* returned record is of a meeting in the filter; and search leaves the stored
\* vectors, embeddings included, unchanged.
C22_SearchContract ==
    /\ [](unit.called =>
            /\ Len(unit.results) <= unit.top_k
            /\ \A a, b \in 1..Len(unit.results) :
                  unit.results[a].chunk_id = unit.results[b].chunk_id => a = b
            /\ \A a \in 1..Len(unit.results) : unit.results[a].embedding = <<>>
            /\ unit.meeting_ids # {} =>
                  \A a \in 1..Len(unit.results) :
                      unit.results[a].meeting_id \in unit.meeting_ids)
    /\ [][(unit'.results # unit.results \/ unit'.called # unit.called) =>
              /\ vstore' = vstore
              /\ \A a \in 1..Len(unit'.results) :
                    \E k \in 1..Len(vstore') :
                        /\ vstore'[k].embedding # <<>>
                        /\ unit'.results[a] = [vstore'[k] EXCEPT !.embedding = <<>>]]_vars

\* C22 witness: after a delete that removed vectors, a filtered search over a
\* store holding more matching vectors than top_k, and vectors of the other
\* meeting, returned top_k = 2 records
C22_Witness ==
    /\ unit.called
    /\ unit.deleted
    /\ unit.top_k = 2
    /\ Len(unit.results) = 2
    /\ unit.meeting_ids = {"m1"}
    /\ Len(vstore) = 3
    /\ \E k \in 1..Len(vstore) : vstore[k].meeting_id = "m2"

RECURSIVE WordsIn(_)
\* the word count of a run of segments
WordsIn(run) == IF run = <<>> THEN 0 ELSE Head(run).words + WordsIn(Tail(run))

\* C26: a chunk of two or more segments has at most max_tokens words; a chunk
\* has more than max_tokens words only when it is one segment that alone
\* exceeds max_tokens; and every chunk is greedy-maximal: the input segment
\* that follows it, if any, would have taken its word count above max_tokens.
C26_TokenLimit ==
    ChunkReturned =>
        \A c \in 1..Len(unit.chunks) :
            LET run == unit.chunks[c].text IN
            /\ Len(run) >= 2 => WordsIn(run) <= unit.max_tokens
            /\ WordsIn(run) > unit.max_tokens =>
                  Len(run) = 1 /\ run[1].words > unit.max_tokens
            /\ \A a \in 1..(Len(unit.segments) - 1) :
                  unit.segments[a] = run[Len(run)] =>
                      WordsIn(run) + unit.segments[a + 1].words > unit.max_tokens

\* C26 witness: one call returned a chunk that fills max_tokens exactly with
\* several segments, a one-segment chunk that exceeds max_tokens, and a chunk
\* below max_tokens that is followed by another
C26_Witness ==
    /\ ChunkReturned
    /\ \E c \in 1..Len(unit.chunks) :
          Len(unit.chunks[c].text) >= 2 /\ WordsIn(unit.chunks[c].text) = unit.max_tokens
    /\ \E c \in 1..Len(unit.chunks) :
          Len(unit.chunks[c].text) = 1 /\ WordsIn(unit.chunks[c].text) > unit.max_tokens
    /\ \E c \in 1..(Len(unit.chunks) - 1) : WordsIn(unit.chunks[c].text) < unit.max_tokens

====
